---- MODULE Spec2Model ----
(***************************************************************************)
(* A model of the scripts of the repository:                              *)
(*   script/utils/pressureController.py  PressureController               *)
(*   script/set_FS_frame.py              smooth_vectors, interpolate_line, *)
(*                                       compute_tangent_vectors,          *)
(*                                       compute_MRF                       *)
(* Pressures are integers in units of 0.001 MPa.  Coordinates and vector   *)
(* components are fixed-point integers in units of 1/Scale.  A NaN vector  *)
(* is the empty tuple NaNVec; a NaN scalar is modelled where it arises.    *)
(***************************************************************************)
EXTENDS Integers, Sequences, FiniteSets, TLC

VARIABLES
    \* PressureController
    value,          \* self.constraints[0].value.value[0], in 0.001 MPa
    real_time,      \* self.real_time: the readArduino thread runs
    kpc,            \* position of the GUI thread inside onKeypressedEvent
    pressureValue,  \* the local of onKeypressedEvent
    writer,         \* who assigned self.constraints[0].value last
    \* smooth_vectors, statement by statement
    vectors,          \* the argument
    window_size,      \* the argument
    passes,           \* the argument
    smoothed_vectors, \* the array the loop assigns into
    padded_vectors,   \* the padded copy of the current pass
    pass_in,          \* smoothed_vectors as the current pass found it
    pass,             \* passes completed
    i,                \* the index of the inner loop, from 1
    spc,              \* position inside smooth_vectors
    \* interpolate_line, compute_tangent_vectors, compute_MRF
    call,                 \* the function the caller enters at
    points,               \* the argument of interpolate_line
    num_points,           \* the argument of interpolate_line
    interpolated_points,  \* what interpolate_line returned
    interp_outcome,       \* "pending", "returned" or the exception raised
    tangents,             \* what compute_tangent_vectors returned
    tan_outcome,          \* "pending", "returned" or the exception raised
    mrf_normals,          \* normals of compute_MRF before line 81
    mrf_binormals,        \* binormals of compute_MRF before line 82
    normals,              \* what compute_MRF returned
    binormals,            \* what compute_MRF returned
    fpc                   \* the function called next, "done" or "error"

pvars == <<value, real_time, kpc, pressureValue, writer>>

svars == <<vectors, window_size, passes, smoothed_vectors, padded_vectors,
           pass_in, pass, i, spc>>

fvars == <<call, points, num_points, interpolated_points, interp_outcome,
           tangents, tan_outcome, mrf_normals, mrf_binormals, normals,
           binormals, fpc>>

vars == <<pvars, svars, fvars>>

\* The state of a part of the program that a specification leaves out.
PressureIdle ==
    /\ value = 0
    /\ real_time = FALSE
    /\ kpc = "off"
    /\ pressureValue = 0
    /\ writer = "scene"

SmoothIdle ==
    /\ vectors = << >>
    /\ window_size = 0
    /\ passes = 0
    /\ smoothed_vectors = << >>
    /\ padded_vectors = << >>
    /\ pass_in = << >>
    /\ pass = 0
    /\ i = 0
    /\ spc = "off"

FrameIdle ==
    /\ call = "off"
    /\ points = << >>
    /\ num_points = 0
    /\ interpolated_points = << >>
    /\ interp_outcome = "pending"
    /\ tangents = << >>
    /\ tan_outcome = "pending"
    /\ mrf_normals = << >>
    /\ mrf_binormals = << >>
    /\ normals = << >>
    /\ binormals = << >>
    /\ fpc = "off"

(***************************************************************************)
(* PressureController                                                      *)
(***************************************************************************)

\* Bound of the model: the longest number text a serial line holds.
MaxNumLen == 4

\* Key codes compared with ord(key).
KeyUp == 19
KeyDown == 21
KeyLeft == 18
KeyRight == 20
\* A key code none of the handlers compares with.
KeyOther == KeyUp + KeyDown + KeyLeft + KeyRight

\* increment = 0.01, and the limits of the three clamps, in 0.001 MPa.
increment == 10
UpLimit == 1500
DownLimit == 0
SerialLow == 0
SerialHigh == 2000

Keys == {KeyUp, KeyDown, KeyLeft, KeyRight, KeyOther}

\* event['State'] of onMouseEvent.
MouseStates == 0 .. 6

\* The tokens of a serial line: the two literal parts of the pattern, and
\* single characters.
PREFIX == "Pressure from A0: "
SUFFIX == " MPa"
Digits == {"0", "1", "9"}
Chars == Digits \cup {".", "-"}

DigitValue(c) == CASE c = "0" -> 0 [] c = "1" -> 1 [] c = "9" -> 9

SeqsUpTo(S, n) == UNION {[1 .. k -> S] : k \in 1 .. n}

NumTexts == SeqsUpTo(Chars, MaxNumLen)

\* Lines the serial port can deliver: well formed, with a part missing, and
\* with text around the pattern.
Lines ==
    {<<PREFIX>> \o t \o <<SUFFIX>> : t \in NumTexts}
    \cup {<<"-", PREFIX>> \o t \o <<SUFFIX, "-">> : t \in NumTexts}
    \cup {<<PREFIX>> \o t : t \in NumTexts}
    \cup {t \o <<SUFFIX>> : t \in NumTexts}
    \cup {<< >>}

\* \d+\.\d+ : digits, a point, digits.
IsDecimal(t) ==
    \E p \in 2 .. Len(t) - 1 :
        /\ t[p] = "."
        /\ \A q \in 1 .. Len(t) : q # p => t[q] \in Digits

\* re.search(r'Pressure from A0: (\d+\.\d+) MPa', line): the places where
\* the pattern matches, as <<first, last>> of group 1.
MatchSpans(line) ==
    {<<a, b>> \in (1 .. Len(line)) \X (1 .. Len(line)) :
        /\ a > 1 /\ line[a - 1] = PREFIX
        /\ b < Len(line) /\ line[b + 1] = SUFFIX
        /\ a <= b
        /\ IsDecimal(SubSeq(line, a, b))}

HasMatch(line) == MatchSpans(line) # {}

\* match.group(1) of the leftmost match.
Group1(line) ==
    LET s == CHOOSE m \in MatchSpans(line) :
                 \A o \in MatchSpans(line) : m[1] <= o[1]
    IN SubSeq(line, s[1], s[2])

RECURSIVE DigitsValue(_)
DigitsValue(t) ==
    IF t = << >> THEN 0
    ELSE 10 * DigitsValue(SubSeq(t, 1, Len(t) - 1)) + DigitValue(t[Len(t)])

Pow10(k) == CASE k = 0 -> 1 [] k = 1 -> 10 [] k = 2 -> 100 [] k = 3 -> 1000

\* float(match.group(1)), in 0.001 MPa (texts hold at most three decimals).
ParseFloat(t) ==
    LET p == CHOOSE q \in 1 .. Len(t) : t[q] = "."
        int == SubSeq(t, 1, p - 1)
        frac == SubSeq(t, p + 1, Len(t))
    IN DigitsValue(int) * 1000 + DigitsValue(frac) * Pow10(3 - Len(frac))

\* Lines 62-63 left out: the local is assigned as computed.
ClampUp_Missing(v) == v

\* Lines 62-63.
ClampUp(v) == IF v > UpLimit THEN UpLimit ELSE v

\* Lines 71-72.
ClampDown(v) == IF v < DownLimit THEN DownLimit ELSE v

\* Lines 161-165.
ClampSerial(v) ==
    LET lo == IF v < SerialLow THEN SerialLow ELSE v
    IN IF lo > SerialHigh THEN SerialHigh ELSE lo

InitialValues == {0, 5, 500, 1495, 1500, 1995, 2000}

PressureInit ==
    /\ value \in InitialValues
    /\ real_time \in BOOLEAN
    /\ kpc = "idle"
    /\ pressureValue = 0
    /\ writer = "scene"
    /\ SmoothIdle
    /\ FrameIdle

\* onKeypressedEvent, Up: line 61 reads the constraint, lines 62-63 clamp the
\* local.
KeyUpRead ==
    /\ kpc = "idle"
    /\ pressureValue' = ClampUp(value + increment)
    /\ kpc' = "up_write"
    /\ UNCHANGED <<value, real_time, writer, svars, fvars>>

\* Line 64 assigns the constraint.
KeyUpWrite ==
    /\ kpc = "up_write"
    /\ value' = pressureValue
    /\ writer' = "up"
    /\ kpc' = "idle"
    /\ UNCHANGED <<real_time, pressureValue, svars, fvars>>

\* onKeypressedEvent, Down: line 70 reads, lines 71-72 clamp.
KeyDownRead ==
    /\ kpc = "idle"
    /\ pressureValue' = ClampDown(value - increment)
    /\ kpc' = "down_write"
    /\ UNCHANGED <<value, real_time, writer, svars, fvars>>

\* Line 73 assigns the constraint.
KeyDownWrite ==
    /\ kpc = "down_write"
    /\ value' = pressureValue
    /\ writer' = "down"
    /\ kpc' = "idle"
    /\ UNCHANGED <<real_time, pressureValue, svars, fvars>>

\* onKeypressedEvent with any other key: Left and Right only print.
KeyOtherPressed ==
    /\ kpc = "idle"
    /\ \E key \in Keys \ {KeyUp, KeyDown} : UNCHANGED vars

\* onKeyreleasedEvent only prints.
onKeyreleasedEvent ==
    /\ kpc = "idle"
    /\ \E key \in Keys : UNCHANGED vars

\* onMouseEvent only prints.
onMouseEvent ==
    /\ kpc = "idle"
    /\ \E state \in MouseStates : UNCHANGED vars

\* What one turn of the loop of readArduino does with a line, lines 152-168:
\* the value it assigns to the constraint when the pattern matches, and
\* NoWrite when it does not.
NoWrite == 0 - 1

SerialWrite(line) ==
    IF HasMatch(line) THEN ClampSerial(ParseFloat(Group1(line))) ELSE NoWrite

\* The outcomes of a turn, over every line the port can deliver.
SerialWrites == {SerialWrite(line) : line \in Lines}

\* One turn of the loop of readArduino, in the thread __init__ starts when
\* real_time holds: a line is read, and when the pattern matches the value
\* is clamped and assigned to the constraint.
readArduino ==
    /\ real_time
    /\ \E w \in SerialWrites :
        IF w # NoWrite
        THEN /\ value' = w
             /\ writer' = "serial"
             /\ UNCHANGED <<real_time, kpc, pressureValue, svars, fvars>>
        ELSE UNCHANGED vars

PressureNext ==
    \/ KeyUpRead
    \/ KeyUpWrite
    \/ KeyDownRead
    \/ KeyDownWrite
    \/ KeyOtherPressed
    \/ onKeyreleasedEvent
    \/ onMouseEvent
    \/ readArduino

PressureSpec == PressureInit /\ [][PressureNext]_vars

\* C9: started within [0, 2.0], the constraint value stays within [0, 2.0]
\* whatever the key, mouse and serial events and their interleaving; a value
\* an Up press wrote is at most 1.5, one a Down press wrote is at least 0.0,
\* one a serial line wrote is within [0, 2].
C9_ValueWithinLimits ==
    /\ value \in 0 .. 2000
    /\ writer = "up" => value <= 1500
    /\ writer = "down" => value >= 0
    /\ writer = "serial" => value \in 0 .. 2000

\* An Up press that read 2.0 from the serial thread has written its clamped
\* value.
C9_Witness == real_time /\ writer = "up" /\ value = 1500

\* C10: with the readArduino thread running, the value a key press writes
\* is the clamped increment or decrement of the value the constraint holds
\* immediately before that write.
C10_KeyUpdateAtomic ==
    [][/\ (real_time /\ KeyUpWrite) =>
            value' = (IF value + 10 > 1500 THEN 1500 ELSE value + 10)
       /\ (real_time /\ KeyDownWrite) =>
            value' = (IF value - 10 < 0 THEN 0 ELSE value - 10)]_vars


(***************************************************************************)
(* Fixed-point arithmetic and 3-vectors                                    *)
(***************************************************************************)

\* One unit of a coordinate or of a vector component is 1/Scale.
Scale == 100 * 100

Abs(a) == IF a < 0 THEN 0 - a ELSE a

Min(a, b) == IF a < b THEN a ELSE b

Max(a, b) == IF a > b THEN a ELSE b

\* a / b rounded toward zero, b > 0.
Quot(a, b) == IF a < 0 THEN 0 - ((0 - a) \div b) ELSE a \div b

\* The integer square root, by Newton's iteration from above.
RECURSIVE SqrtFrom(_, _)
SqrtFrom(n, x) ==
    LET y == (x + n \div x) \div 2
    IN IF y >= x THEN x ELSE SqrtFrom(n, y)

ISqrt(n) == IF n = 0 THEN 0 ELSE SqrtFrom(n, n)

\* The product of two fixed-point numbers, in parts so that no intermediate
\* result leaves the integers of the model checker.
FMul(a, b) ==
    LET sg == IF (a < 0) = (b < 0) THEN 1 ELSE 0 - 1
        x == Abs(a)
        y == Abs(b)
        x1 == x \div Scale
        x0 == x % Scale
        y1 == y \div Scale
        y0 == y % Scale
    IN sg * (x1 * y1 * Scale + x1 * y0 + x0 * y1 + (x0 * y0) \div Scale)

\* The quotient of two fixed-point numbers, b # 0, by long division in two
\* steps of 100.
FDiv(a, b) ==
    LET sg == IF (a < 0) = (b < 0) THEN 1 ELSE 0 - 1
        x == Abs(a)
        y == Abs(b)
        r0 == (x % y) * 100
        r1 == (r0 % y) * 100
    IN sg * ((x \div y) * Scale + (r0 \div y) * 100 + r1 \div y)

\* A vector whose components are NaN.
NaNVec == << >>

IsNaN(v) == v = NaNVec

VAdd(u, v) ==
    IF IsNaN(u) \/ IsNaN(v) THEN NaNVec
    ELSE <<u[1] + v[1], u[2] + v[2], u[3] + v[3]>>

VSub(u, v) ==
    IF IsNaN(u) \/ IsNaN(v) THEN NaNVec
    ELSE <<u[1] - v[1], u[2] - v[2], u[3] - v[3]>>

\* np.dot of two finite vectors.
Dot(u, v) == FMul(u[1], v[1]) + FMul(u[2], v[2]) + FMul(u[3], v[3])

\* np.cross.
Cross(u, v) ==
    IF IsNaN(u) \/ IsNaN(v) THEN NaNVec
    ELSE <<FMul(u[2], v[3]) - FMul(u[3], v[2]),
           FMul(u[3], v[1]) - FMul(u[1], v[3]),
           FMul(u[1], v[2]) - FMul(u[2], v[1])>>

\* np.linalg.norm of a finite vector.
Norm(v) == ISqrt(v[1] * v[1] + v[2] * v[2] + v[3] * v[3])

\* v / np.linalg.norm(v): 0/0 is NaN in every component, and NaN stays NaN.
Normalize(v) ==
    IF IsNaN(v) THEN NaNVec
    ELSE LET n == Norm(v)
         IN IF n = 0 THEN NaNVec
            ELSE <<FDiv(v[1], n), FDiv(v[2], n), FDiv(v[3], n)>>

RECURSIVE VSum(_)
VSum(seq) ==
    IF seq = << >> THEN <<0, 0, 0>> ELSE VAdd(seq[1], VSum(Tail(seq)))

\* np.mean(rows, axis=0); the mean of no rows is NaN.
Mean(seq) ==
    LET sum == VSum(seq)
    IN IF seq = << >> \/ IsNaN(sum) THEN NaNVec
       ELSE <<Quot(sum[1], Len(seq)), Quot(sum[2], Len(seq)),
              Quot(sum[3], Len(seq))>>

(***************************************************************************)
(* smooth_vectors                                                          *)
(***************************************************************************)

\* Bounds of the model.
MaxSmoothLen == 4
MaxWindow == 4
MaxPasses == 2

\* The defaults of window_size and passes.
DefaultWindow == 10
DefaultPasses == 1

Replicate(v, n) == [k \in 1 .. n |-> v]

\* Line 10 with no padding at all.
PadWidth_Zero(w) == 0

\* Line 10: pad_width = window_size // 2.
PadWidth(w) == w \div 2

\* Line 11: np.pad(..., ((pad, pad), (0, 0)), mode='edge'), a new array.
PadEdge(seq, pad) ==
    Replicate(seq[1], pad) \o seq \o Replicate(seq[Len(seq)], pad)

\* The slice of line 15 one element short.
Window_Short(padded, k, w) == SubSeq(padded, k, Min(k + w - 2, Len(padded)))

\* Line 15: padded_vectors[i:i + window_size], for the index k = i + 1; a
\* slice ends where the array ends.
Window(padded, k, w) == SubSeq(padded, k, Min(k + w - 1, Len(padded)))

\* Lines 18-19.
NormalizeRows(seq) == [k \in 1 .. Len(seq) |-> Normalize(seq[k])]

\* Lines 10-19: one pass.
SmoothPass(seq, w) ==
    LET padded == PadEdge(seq, PadWidth(w))
    IN NormalizeRows([k \in 1 .. Len(seq) |-> Mean(Window(padded, k, w))])

\* Lines 5-21 as a function.
RECURSIVE smooth_vectors(_, _, _)
smooth_vectors(seq, w, n) ==
    IF n = 0 THEN seq ELSE smooth_vectors(SmoothPass(seq, w), w, n - 1)

\* The vectors the arguments are drawn from: unit vectors, two of them
\* opposite.
VecPool == {<<Scale, 0, 0>>, <<0, Scale, 0>>, <<0 - Scale, 0, 0>>}

SmoothInit ==
    /\ vectors \in SeqsUpTo(VecPool, MaxSmoothLen)
    /\ window_size \in (1 .. MaxWindow) \cup {DefaultWindow}
    /\ passes \in 0 .. MaxPasses
    /\ smoothed_vectors = << >>
    /\ padded_vectors = << >>
    /\ pass_in = << >>
    /\ pass = 0
    /\ i = 0
    /\ spc = "copy"
    /\ PressureIdle
    /\ FrameIdle

\* Line 7.
SmoothCopy ==
    /\ spc = "copy"
    /\ smoothed_vectors' = vectors
    /\ spc' = "pass"
    /\ UNCHANGED <<vectors, window_size, passes, padded_vectors, pass_in,
                   pass, i, pvars, fvars>>

\* Lines 8-11: a pass begins.
SmoothPad ==
    /\ spc = "pass"
    /\ pass < passes
    /\ padded_vectors' = PadEdge(smoothed_vectors, PadWidth(window_size))
    /\ pass_in' = smoothed_vectors
    /\ i' = 1
    /\ spc' = "mean"
    /\ UNCHANGED <<vectors, window_size, passes, smoothed_vectors, pass,
                   pvars, fvars>>

\* Lines 14-15: one turn of the inner loop.
SmoothMean ==
    /\ spc = "mean"
    /\ i <= Len(smoothed_vectors)
    /\ smoothed_vectors' =
          [smoothed_vectors EXCEPT
              ![i] = Mean(Window(padded_vectors, i, window_size))]
    /\ i' = i + 1
    /\ UNCHANGED <<vectors, window_size, passes, padded_vectors, pass_in,
                   pass, spc, pvars, fvars>>

\* Lines 18-19: the pass ends.
SmoothNormalize ==
    /\ spc = "mean"
    /\ i > Len(smoothed_vectors)
    /\ smoothed_vectors' = NormalizeRows(smoothed_vectors)
    /\ pass' = pass + 1
    /\ spc' = "pass"
    /\ UNCHANGED <<vectors, window_size, passes, padded_vectors, pass_in,
                   i, pvars, fvars>>

\* Line 21.
SmoothReturn ==
    /\ spc = "pass"
    /\ pass = passes
    /\ spc' = "done"
    /\ UNCHANGED <<vectors, window_size, passes, smoothed_vectors,
                   padded_vectors, pass_in, pass, i, pvars, fvars>>

SmoothNext ==
    \/ SmoothCopy
    \/ SmoothPad
    \/ SmoothMean
    \/ SmoothNormalize
    \/ SmoothReturn

SmoothSpec == SmoothInit /\ [][SmoothNext]_vars

\* The statements of smooth_vectors return what the function smooth_vectors
\* of the other operations computes.
SmoothAgrees ==
    spc = "done" =>
        smoothed_vectors = smooth_vectors(vectors, window_size, passes)

\* Element k of a sequence that has pad copies of its first element before
\* it and pad copies of its last element after it.
PaddedAt(seq, pad, k) ==
    IF k <= pad THEN seq[1]
    ELSE IF k <= pad + Len(seq) THEN seq[k - pad]
    ELSE seq[Len(seq)]

\* The mean of the w consecutive elements k .. k+w-1 of seq padded by
\* floor(w/2) at both ends.
PaddedWindowMean(seq, w, k) ==
    Mean([j \in 1 .. w |-> PaddedAt(seq, w \div 2, k + j - 1)])

\* C8: smooth_vectors returns as many vectors as it was given; in each pass
\* output k is the normalised mean of exactly window_size consecutive
\* elements of the padded sequence of the start of that pass, values the
\* pass has already replaced never enter a later window, and no window runs
\* past the end of the padded sequence.
C8_PassIsPaddedWindowMean ==
    /\ spc \in {"pass", "mean", "done"} =>
          Len(smoothed_vectors) = Len(vectors)
    /\ spc = "mean" =>
          \A k \in 1 .. Len(smoothed_vectors) :
              /\ k + window_size - 1 <= Len(padded_vectors)
              /\ smoothed_vectors[k] =
                    IF k < i THEN PaddedWindowMean(pass_in, window_size, k)
                    ELSE pass_in[k]
    /\ (spc \in {"pass", "done"} /\ pass > 0) =>
          \A k \in 1 .. Len(smoothed_vectors) :
              smoothed_vectors[k] =
                  Normalize(PaddedWindowMean(pass_in, window_size, k))

\* Two passes over three or more vectors have changed them and left no NaN.
C8_Witness ==
    /\ spc = "done"
    /\ pass = 2
    /\ window_size >= 3
    /\ Len(vectors) >= 3
    /\ smoothed_vectors # vectors
    /\ \A k \in 1 .. Len(smoothed_vectors) : ~IsNaN(smoothed_vectors[k])

\* The mean of the window of w input vectors that starts at input k and
\* extends toward later indices, clamped to the last vector.
ForwardWindowMean(seq, w, k) ==
    Mean([j \in 1 .. w |-> seq[Min(k + j - 1, Len(seq))]])

\* The mean of the input vectors k - floor(w/2) .. k + w - 1 - floor(w/2),
\* indices clamped to the first and the last vector.
CentredWindowMean(seq, w, k) ==
    Mean([j \in 1 .. w |->
             seq[Max(1, Min(k + j - 1 - w \div 2, Len(seq)))]])

\* C7 as stated: the neighbourhood averaged for output k starts at input k
\* and extends only toward later indices, so that no input vector before k
\* contributes to output k.
C7_ForwardOnInput ==
    (spc \in {"pass", "done"} /\ pass > 0) =>
        \A k \in 1 .. Len(smoothed_vectors) :
            smoothed_vectors[k] =
                Normalize(ForwardWindowMean(pass_in, window_size, k))

\* C7 as amended: the window is forward-looking in the padded sequence only;
\* in the input of the pass, output k averages the vectors
\* k - floor(w/2) .. k + w - 1 - floor(w/2), clamped at both ends.
C7_CentredOnInput ==
    (spc \in {"pass", "done"} /\ pass > 0) =>
        \A k \in 1 .. Len(smoothed_vectors) :
            smoothed_vectors[k] =
                Normalize(CentredWindowMean(pass_in, window_size, k))

\* A pass has ended with an output that is not the mean of the forward
\* window: an earlier input vector has contributed to it.
C7_Witness ==
    /\ spc = "done"
    /\ pass > 0
    /\ window_size >= 2
    /\ \E k \in 2 .. Len(smoothed_vectors) :
          /\ ~IsNaN(smoothed_vectors[k])
          /\ smoothed_vectors[k] #
                Normalize(ForwardWindowMean(pass_in, window_size, k))

(***************************************************************************)
(* interpolate_line                                                        *)
(***************************************************************************)

\* Bounds of the model.
MaxCurveLen == 3
MaxNumPoints == 3
MaxLinePoints == 11
MaxSpacing == 2
MaxTangents == 3

\* num_points=None.
NoneValue == 0 - 1

\* Line 26: np.array(points), of points with whole coordinates.
ToFloat(pts) ==
    [k \in 1 .. Len(pts) |->
        <<pts[k][1] * Scale, pts[k][2] * Scale, pts[k][3] * Scale>>]

\* np.diff(arr, axis=0) taken the wrong way round.
Diffs_Reversed(arr) == [k \in 1 .. Len(arr) - 1 |-> VSub(arr[k], arr[k + 1])]

\* np.diff(arr, axis=0).
Diffs(arr) == [k \in 1 .. Len(arr) - 1 |-> VSub(arr[k + 1], arr[k])]

RECURSIVE SumTo(_, _)
SumTo(seq, k) == IF k = 0 THEN 0 ELSE SumTo(seq, k - 1) + seq[k]

\* A parameter that counts the points instead of measuring the chords.
distance_ByIndex(arr) == [k \in 1 .. Len(arr) |-> (k - 1) * Scale]

\* Line 32: the cumulative chord length at every point.
distance(arr) ==
    LET seg == [k \in 1 .. Len(arr) - 1 |-> Norm(Diffs(arr)[k])]
    IN [k \in 1 .. Len(arr) |-> SumTo(seg, k - 1)]

\* Line 34: distance / distance[-1].  A total of zero makes every element
\* 0/0: the array is NaN throughout, and finite is FALSE.
distance_normalized(dist) ==
    LET total == dist[Len(dist)]
    IN IF total = 0
       THEN [finite |-> FALSE, len |-> Len(dist), x |-> << >>]
       ELSE [finite |-> TRUE, len |-> Len(dist),
             x |-> [k \in 1 .. Len(dist) |-> FDiv(dist[k], total)]]

\* What CubicSpline(x, y) raises on its arguments, lines 37-39: fewer than
\* two elements, an x that is not finite, an x that is not strictly
\* increasing.
CubicSplineError(dn) ==
    IF dn.len < 2 THEN "ValueError"
    ELSE IF ~dn.finite THEN "ValueError"
    ELSE IF \E k \in 1 .. dn.len - 1 : dn.x[k + 1] - dn.x[k] <= 0
         THEN "ValueError"
    ELSE "none"

\* Line 42: np.linspace(0, 1, num).
linspace(num) ==
    IF num = 1 THEN <<0>>
    ELSE [k \in 1 .. num |-> ((k - 1) * Scale) \div (num - 1)]

\* The solution of a tridiagonal system, rows a[k] s[k-1] + b[k] s[k] +
\* c[k] s[k+1] = d[k], by elimination and back substitution.
RECURSIVE ThomasForward(_, _, _, _, _, _, _)
ThomasForward(a, b, c, d, k, bp, dp) ==
    IF k > Len(b) THEN <<bp, dp>>
    ELSE LET w == FDiv(a[k], bp[k - 1])
         IN ThomasForward(a, b, c, d, k + 1,
                          Append(bp, b[k] - FMul(w, c[k - 1])),
                          Append(dp, d[k] - FMul(w, dp[k - 1])))

RECURSIVE ThomasBack(_, _, _, _, _)
ThomasBack(c, bp, dp, k, s) ==
    IF k = 0 THEN s
    ELSE ThomasBack(c, bp, dp, k - 1,
                    <<FDiv(dp[k] - FMul(c[k], s[1]), bp[k])>> \o s)

Thomas(a, b, c, d) ==
    LET n == Len(b)
        f == ThomasForward(a, b, c, d, 2, <<b[1]>>, <<d[1]>>)
    IN ThomasBack(c, f[1], f[2], n - 1, <<FDiv(f[2][n], f[1][n])>>)

\* The derivatives at the knots of the cubic spline through (x, y) with the
\* not-a-knot condition at both ends, as CubicSpline finds them: a line
\* through two points, a parabola through three, and from four points on the
\* tridiagonal system of the continuity of the second derivative.
SplineDerivatives(x, y) ==
    LET n == Len(x)
        dx == [k \in 1 .. n - 1 |-> x[k + 1] - x[k]]
        slope == [k \in 1 .. n - 1 |-> FDiv(y[k + 1] - y[k], dx[k])]
    IN IF n = 2 THEN <<slope[1], slope[1]>>
       ELSE IF n = 3
       THEN Thomas(<<0, dx[2], Scale>>,
                   <<Scale, 2 * (dx[1] + dx[2]), Scale>>,
                   <<Scale, dx[1]>>,
                   <<2 * slope[1],
                     3 * (FMul(dx[1], slope[2]) + FMul(dx[2], slope[1])),
                     2 * slope[2]>>)
       ELSE LET d1 == x[3] - x[1]
                dn == x[n] - x[n - 2]
            IN Thomas(
                [k \in 1 .. n |->
                    IF k = 1 THEN 0 ELSE IF k = n THEN dn ELSE dx[k]],
                [k \in 1 .. n |->
                    IF k = 1 THEN dx[2]
                    ELSE IF k = n THEN dx[n - 2]
                    ELSE 2 * (dx[k - 1] + dx[k])],
                [k \in 1 .. n - 1 |-> IF k = 1 THEN d1 ELSE dx[k - 1]],
                [k \in 1 .. n |->
                    IF k = 1
                    THEN FDiv(FMul(FMul(dx[1] + 2 * d1, dx[2]), slope[1])
                              + FMul(FMul(dx[1], dx[1]), slope[2]), d1)
                    ELSE IF k = n
                    THEN FDiv(FMul(FMul(dx[n - 1], dx[n - 1]), slope[n - 2])
                              + FMul(FMul(2 * dn + dx[n - 1], dx[n - 2]),
                                     slope[n - 1]), dn)
                    ELSE 3 * (FMul(dx[k], slope[k - 1])
                              + FMul(dx[k - 1], slope[k]))])

\* The spline with derivatives s at the knots, evaluated at u: the cubic of
\* the interval x[k] <= u < x[k+1] (the last interval holds its right end).
SplineValue(x, y, s, u) ==
    LET n == Len(x)
        below == {k \in 1 .. n - 1 : x[k] <= u}
        k == IF below = {} THEN 1
             ELSE CHOOSE m \in below : \A o \in below : o <= m
        h == x[k + 1] - x[k]
        t == u - x[k]
        slope == FDiv(y[k + 1] - y[k], h)
        tt == FDiv(s[k] + s[k + 1] - 2 * slope, h)
        c0 == FDiv(tt, h)
        c1 == FDiv(slope - s[k], h) - tt
    IN y[k] + FMul(t, s[k] + FMul(t, c1 + FMul(t, c0)))

Column(arr, c) == [k \in 1 .. Len(arr) |-> arr[k][c]]

\* Lines 25-47.  The result is the exception raised, or the array returned.
interpolate_line(pts, num) ==
    LET arr == ToFloat(pts)
        n == IF num = NoneValue THEN Len(arr) ELSE num
        dn == distance_normalized(distance(arr))
        err == CubicSplineError(dn)
        sx == SplineDerivatives(dn.x, Column(arr, 1))
        sy == SplineDerivatives(dn.x, Column(arr, 2))
        sz == SplineDerivatives(dn.x, Column(arr, 3))
        us == linspace(n)
    IN IF err # "none" THEN [outcome |-> err, points |-> << >>]
       ELSE [outcome |-> "returned",
             points |->
                [k \in 1 .. n |->
                    <<SplineValue(dn.x, Column(arr, 1), sx, us[k]),
                      SplineValue(dn.x, Column(arr, 2), sy, us[k]),
                      SplineValue(dn.x, Column(arr, 3), sz, us[k])>>]]

(***************************************************************************)
(* compute_tangent_vectors and compute_MRF                                 *)
(***************************************************************************)

\* Lines 50-58.  tangents[-1] of line 53 raises IndexError when there is no
\* difference to repeat.
compute_tangent_vectors(arr) ==
    IF Len(arr) < 2 THEN [outcome |-> "IndexError", tangents |-> << >>]
    ELSE LET d == Diffs(arr)
             t == d \o <<d[Len(d)]>>
         IN [outcome |-> "returned",
             tangents |->
                smooth_vectors(NormalizeRows(t), DefaultWindow,
                               DefaultPasses)]

VScale(a, v) == <<FMul(a, v[1]), FMul(a, v[2]), FMul(a, v[3])>>

\* Lines 66-67.
InitNormal(t) ==
    IF IsNaN(t) THEN NaNVec ELSE Normalize(<<t[2], 0 - t[1], 0>>)

\* Lines 75-76.
ProjectNormal(prev, t) ==
    IF IsNaN(prev) \/ IsNaN(t) THEN NaNVec
    ELSE Normalize(VSub(prev, VScale(Dot(prev, t), t)))

\* Lines 66-76: the normals, before they are smoothed.
RECURSIVE PropagateNormals(_, _)
PropagateNormals(tans, acc) ==
    IF Len(acc) = Len(tans) THEN acc
    ELSE PropagateNormals(tans,
            Append(acc, ProjectNormal(acc[Len(acc)], tans[Len(acc) + 1])))

\* Lines 60-84.
compute_MRF(tans) ==
    LET ns == PropagateNormals(tans, <<InitNormal(tans[1])>>)
        bs == [k \in 1 .. Len(tans) |-> Cross(tans[k], ns[k])]
    IN [mrf_normals |-> ns,
        mrf_binormals |-> bs,
        normals |-> smooth_vectors(ns, DefaultWindow, DefaultPasses),
        binormals |-> smooth_vectors(bs, DefaultWindow, DefaultPasses)]

\* The points of the input curves.
GridPoints == {<<0, 0, 0>>, <<1, 0, 0>>, <<0, 1, 0>>, <<0, 0, 1>>, <<1, 1, 0>>}

GridCurves == SeqsUpTo(GridPoints, MaxCurveLen)

\* Equally spaced points along the +x axis, from the origin.
LineCurves ==
    {[k \in 1 .. n |-> <<(k - 1) * d, 0, 0>>] :
        n \in 2 .. MaxLinePoints, d \in 1 .. MaxSpacing}

\* Unit tangents: the axes, one opposite, one oblique.
UnitPool ==
    {<<Scale, 0, 0>>, <<0, Scale, 0>>, <<0, 0, Scale>>, <<0 - Scale, 0, 0>>,
     <<(Scale \div 10) * 6, (Scale \div 10) * 8, 0>>}

FrameInit ==
    /\ \/ /\ call = "interpolate_line"
          /\ \/ /\ points \in GridCurves
                /\ num_points \in {NoneValue} \cup (1 .. MaxNumPoints)
             \/ /\ points \in LineCurves
                /\ num_points = NoneValue
          /\ interpolated_points = << >>
          /\ tangents = << >>
       \/ /\ call = "compute_tangent_vectors"
          /\ points = << >>
          /\ num_points = NoneValue
          /\ interpolated_points \in {ToFloat(c) : c \in GridCurves}
          /\ tangents = << >>
       \/ /\ call = "compute_MRF"
          /\ points = << >>
          /\ num_points = NoneValue
          /\ interpolated_points = << >>
          /\ tangents \in SeqsUpTo(UnitPool, MaxTangents)
    /\ fpc = call
    /\ interp_outcome = "pending"
    /\ tan_outcome = "pending"
    /\ mrf_normals = << >>
    /\ mrf_binormals = << >>
    /\ normals = << >>
    /\ binormals = << >>
    /\ PressureIdle
    /\ SmoothIdle

\* draw_FS_frames line 122, or a call of interpolate_line.
InterpolateLine ==
    /\ fpc = "interpolate_line"
    /\ LET r == interpolate_line(points, num_points)
       IN /\ interp_outcome' = r.outcome
          /\ interpolated_points' = r.points
          /\ fpc' = IF r.outcome = "returned"
                    THEN "compute_tangent_vectors" ELSE "error"
    /\ UNCHANGED <<call, points, num_points, tangents, tan_outcome,
                   mrf_normals, mrf_binormals, normals, binormals,
                   pvars, svars>>

\* draw_FS_frames line 125, or a call of compute_tangent_vectors.
ComputeTangentVectors ==
    /\ fpc = "compute_tangent_vectors"
    /\ LET r == compute_tangent_vectors(interpolated_points)
       IN /\ tan_outcome' = r.outcome
          /\ tangents' = r.tangents
          /\ fpc' = IF r.outcome = "returned" THEN "compute_MRF" ELSE "error"
    /\ UNCHANGED <<call, points, num_points, interpolated_points,
                   interp_outcome, mrf_normals, mrf_binormals, normals,
                   binormals, pvars, svars>>

\* draw_FS_frames line 132, or a call of compute_MRF.
ComputeMRF ==
    /\ fpc = "compute_MRF"
    /\ LET r == compute_MRF(tangents)
       IN /\ mrf_normals' = r.mrf_normals
          /\ mrf_binormals' = r.mrf_binormals
          /\ normals' = r.normals
          /\ binormals' = r.binormals
    /\ fpc' = "done"
    /\ UNCHANGED <<call, points, num_points, interpolated_points,
                   interp_outcome, tangents, tan_outcome, pvars, svars>>

FrameNext ==
    \/ InterpolateLine
    \/ ComputeTangentVectors
    \/ ComputeMRF

FrameSpec == FrameInit /\ [][FrameNext]_vars

\* A vector of length one, to the precision of the arithmetic.
IsUnit(v) == ~IsNaN(v) /\ Abs(Norm(v) - Scale) <= 2

\* |u . v| < 1e-3.
Orthogonal(u, v) == Abs(Dot(u, v)) * 1000 < Scale

\* Two consecutive points of the curve coincide.
HasCoincident(pts) == \E k \in 1 .. Len(pts) - 1 : pts[k] = pts[k + 1]

\* Two or more points along the +x axis, each the same positive step after
\* the one before.
EquallySpacedAlongX(pts) ==
    /\ Len(pts) >= 2
    /\ pts[2][1] > pts[1][1]
    /\ \A k \in 1 .. Len(pts) : pts[k][2] = 0 /\ pts[k][3] = 0
    /\ \A k \in 1 .. Len(pts) - 1 :
          pts[k + 1][1] - pts[k][1] = pts[2][1] - pts[1][1]

\* C1: for unit tangents of which no two consecutive ones are near
\* antiparallel, the frame compute_MRF returns is orthonormal at every
\* index: tangent, normal and binormal are unit vectors and their dot
\* products are below 1e-3 in magnitude.  Stated here for tangents that turn
\* by less than a right angle from one index to the next and do not start
\* along the z axis, which the claim covers.
C1_ReturnedFrameOrthonormal ==
    (/\ fpc = "done"
     /\ \A k \in 1 .. Len(tangents) : IsUnit(tangents[k])
     /\ \A k \in 1 .. Len(tangents) - 1 :
           Dot(tangents[k], tangents[k + 1]) > 0
     /\ tangents[1][1] # 0 \/ tangents[1][2] # 0)
    => \A k \in 1 .. Len(tangents) :
          /\ IsUnit(normals[k])
          /\ IsUnit(binormals[k])
          /\ Orthogonal(tangents[k], normals[k])
          /\ Orthogonal(tangents[k], binormals[k])
          /\ Orthogonal(normals[k], binormals[k])

\* C2: equally spaced points along the +x axis, taken through
\* interpolate_line, compute_tangent_vectors and compute_MRF, give the
\* tangent (1, 0, 0) at every index, one normal and one binormal for all
\* indices, and both orthogonal to the tangent.
C2_StraightLineFrame ==
    (/\ call = "interpolate_line"
     /\ EquallySpacedAlongX(points)
     /\ num_points = NoneValue
     /\ fpc # "interpolate_line")
    => /\ fpc # "error"
       /\ fpc = "done" =>
             /\ Len(tangents) = Len(points)
             /\ Len(normals) = Len(points)
             /\ Len(binormals) = Len(points)
             /\ \A k \in 1 .. Len(points) :
                   /\ tangents[k] = <<Scale, 0, 0>>
                   /\ IsUnit(normals[k])
                   /\ IsUnit(binormals[k])
                   /\ normals[k] = normals[1]
                   /\ binormals[k] = binormals[1]
                   /\ Dot(normals[k], tangents[k]) = 0
                   /\ Dot(binormals[k], tangents[k]) = 0

\* The frame of the 11 points from (0,0,0) to (10,0,0) has been computed.
C2_Witness ==
    /\ fpc = "done"
    /\ call = "interpolate_line"
    /\ num_points = NoneValue
    /\ Len(points) = 11
    /\ points[1] = <<0, 0, 0>>
    /\ points[11] = <<10, 0, 0>>

\* C3: interpolate_line of points of which two consecutive ones coincide
\* ends in an exception and returns no array, wherever the two are, also
\* when all points coincide.
C3_CoincidentPointsRaise ==
    (/\ call = "interpolate_line"
     /\ HasCoincident(points)
     /\ fpc # "interpolate_line")
    => /\ interp_outcome \notin {"pending", "returned"}
       /\ interpolated_points = << >>
       /\ fpc = "error"

\* The exception has been raised for three points of which only the first
\* two coincide.
C3_Witness ==
    /\ call = "interpolate_line"
    /\ Len(points) = 3
    /\ points[1] = points[2]
    /\ points[2] # points[3]
    /\ interp_outcome = "ValueError"

\* C4: interpolate_line(points, num_points=1) ends in an exception for
\* every curve of two or more points without coincident neighbours.
C4_OnePointRejected ==
    (/\ call = "interpolate_line"
     /\ num_points = 1
     /\ Len(points) >= 2
     /\ ~HasCoincident(points)
     /\ fpc # "interpolate_line")
    => interp_outcome \notin {"pending", "returned"}

\* C5: compute_tangent_vectors of two or more points with a segment of
\* length zero raises an exception or returns tangents none of which is NaN
\* or zero.
C5_ZeroSegmentGuarded ==
    (/\ fpc \notin {"interpolate_line", "compute_tangent_vectors"}
     /\ tan_outcome # "pending"
     /\ Len(interpolated_points) >= 2
     /\ HasCoincident(interpolated_points))
    => \/ tan_outcome # "returned"
       \/ \A k \in 1 .. Len(tangents) :
             ~IsNaN(tangents[k]) /\ tangents[k] # <<0, 0, 0>>

\* C6: for every unit first tangent compute_MRF starts from a first normal
\* that is a unit vector orthogonal to it, never zero or NaN.
C6_FirstNormalDefined ==
    (fpc = "done" /\ IsUnit(tangents[1]))
    => /\ IsUnit(mrf_normals[1])
       /\ Orthogonal(mrf_normals[1], tangents[1])

====
